---- MODULE Spec2Model ----
(***************************************************************************)
(* Model of the multi-agent research assistant: the three agents of        *)
(* agents.py (Planner, Search, Synthesizer), the two alternative           *)
(* researchers (simple_research.py, google_search_research.py) and the     *)
(* conduct_research orchestration shared by the three assistant classes.   *)
(*                                                                         *)
(* A Python str is a sequence of chunks whose concatenation is the str,    *)
(* the empty sequence being "".  Wherever the code looks inside a str      *)
(* (strip, split, startswith, `in', len) the chunks are single characters. *)
(* The one character TLA+ cannot write, the cross mark U+274C, is the      *)
(* chunk CrossMark.  The hosted model is the environment: every generation *)
(* call has an outcome drawn from a bounded set (a response with text, a   *)
(* response whose text is None, or an exception carrying a message).       *)
(***************************************************************************)
EXTENDS Naturals, Sequences, FiniteSets

(* ------------------------------------------------------------------ *)
(* str helpers                                                          *)
(* ------------------------------------------------------------------ *)

Whitespace == {" ", "\n", "\t", "\r"}
QuoteChars == {"\"", "'"}
Digits == {"0", "1", "2", "3", "4", "5", "6", "7", "8", "9"}

RECURSIVE LStrip(_, _)
LStrip(s, cs) ==
    IF s # <<>> /\ Head(s) \in cs THEN LStrip(Tail(s), cs) ELSE s

RECURSIVE RStrip(_, _)
RStrip(s, cs) ==
    IF s # <<>> /\ s[Len(s)] \in cs THEN RStrip(SubSeq(s, 1, Len(s) - 1), cs) ELSE s

Strip(s, cs) == RStrip(LStrip(s, cs), cs)

StartsWith(s, p) == Len(p) <= Len(s) /\ SubSeq(s, 1, Len(p)) = p

\* Python's `needle in hay' on two strs.
Contains(needle, hay) ==
    \E k \in 0..Len(hay) :
        k + Len(needle) <= Len(hay) /\ SubSeq(hay, k + 1, k + Len(needle)) = needle

\* Index of the first c in s at or after position from, 0 when there is none.
Find(s, c, from) ==
    LET at == {k \in from..Len(s) : s[k] = c} IN
    IF at = {} THEN 0 ELSE CHOOSE k \in at : \A j \in at : k <= j

\* Python's s.split(c): always at least one piece.
RECURSIVE Split(_, _)
Split(s, c) ==
    LET k == Find(s, c, 1) IN
    IF k = 0 THEN <<s>>
    ELSE <<SubSeq(s, 1, k - 1)>> \o Split(SubSeq(s, k + 1, Len(s)), c)

\* A bug: an item of exactly n characters is kept too.
RECURSIVE SelectLongerOrEqual(_, _)
SelectLongerOrEqual(qs, n) ==
    IF qs = <<>> THEN <<>>
    ELSE IF Head(qs) # <<>> /\ Len(Head(qs)) >= n
         THEN <<Head(qs)>> \o SelectLongerOrEqual(Tail(qs), n)
         ELSE SelectLongerOrEqual(Tail(qs), n)

RECURSIVE SelectLonger(_, _)
SelectLonger(qs, n) ==
    IF qs = <<>> THEN <<>>
    ELSE IF Head(qs) # <<>> /\ Len(Head(qs)) > n
         THEN <<Head(qs)>> \o SelectLonger(Tail(qs), n)
         ELSE SelectLonger(Tail(qs), n)

\* bool(response.text): a response whose text is None or "" is falsy.
HasText(o) == o.kind = "text" /\ o.text # <<>>

(* ------------------------------------------------------------------ *)
(* Generation-call outcomes                                             *)
(* ------------------------------------------------------------------ *)

TextOutcome(t) == [kind |-> "text", text |-> t, msg |-> <<>>]
NoneOutcome == [kind |-> "none", text |-> <<>>, msg |-> <<>>]
RaiseOutcome(m) == [kind |-> "raise", text |-> <<>>, msg |-> m]

\* What an agent method hands back: it either raises or returns a value, and
\* `calls' lists the generation calls it issued, in order.
Return(v, cs) == [raised |-> FALSE, value |-> v, calls |-> cs]
Raise(cs) == [raised |-> TRUE, value |-> <<>>, calls |-> cs]

\* One generate_content call: which prompt, which tools, and the text the
\* prompt is built around.
GenCall(prompt, tools, about) == [prompt |-> prompt, tools |-> tools, about |-> about]

(* ------------------------------------------------------------------ *)
(* PlannerAgent                                                         *)
(* ------------------------------------------------------------------ *)

MinBracketLen == 10
MinQuestionLineLen == 20
MaxFallbackQuestions == 5

OrdinalPrefixes ==
    {<<"1", ".">>, <<"2", ".">>, <<"3", ".">>, <<"4", ".">>, <<"5", ".">>}

\* re.sub(r'^\d+\.\s*', '', line)
StripOrdinal(line) ==
    LET rest == LStrip(line, Digits) IN
    IF Len(rest) < Len(line) /\ rest # <<>> /\ Head(rest) = "."
    THEN LStrip(Tail(rest), Whitespace)
    ELSE line

\* re.sub(r'^[-*]\s*', '', line)
StripBullet(line) ==
    IF line # <<>> /\ Head(line) \in {"-", "*"}
    THEN LStrip(Tail(line), Whitespace)
    ELSE line

\* A bug: any line with a question mark counts, however short.
IsQuestionLine_AnyQuestionMark(line) ==
    \/ \E p \in OrdinalPrefixes : StartsWith(line, p)
    \/ StartsWith(line, <<"-">>) \/ StartsWith(line, <<"*">>)
    \/ "?" \in {line[k] : k \in 1..Len(line)}

IsQuestionLine(line) ==
    \/ \E p \in OrdinalPrefixes : StartsWith(line, p)
    \/ StartsWith(line, <<"-">>) \/ StartsWith(line, <<"*">>)
    \/ ("?" \in {line[k] : k \in 1..Len(line)} /\ Len(line) > MinQuestionLineLen)

RECURSIVE FallbackQuestions(_)
FallbackQuestions(lines) ==
    IF lines = <<>> THEN <<>>
    ELSE LET line == Strip(Head(lines), Whitespace)
             clean_line == Strip(StripBullet(StripOrdinal(line)), QuoteChars)
         IN IF IsQuestionLine(line) /\ clean_line # <<>>
            THEN <<clean_line>> \o FallbackQuestions(Tail(lines))
            ELSE FallbackQuestions(Tail(lines))

\* A bug: a bracket pair that yields no question falls through to the lines.
_extract_questions_FallbackWhenEmpty(response_text) ==
    LET open == Find(response_text, "[", 1)
        close == IF open = 0 THEN 0 ELSE Find(response_text, "]", open + 1)
        list_content == SubSeq(response_text, open + 1, close - 1)
        pieces == Split(list_content, ",")
        listed == SelectLonger([k \in 1..Len(pieces) |->
                                   Strip(Strip(pieces[k], Whitespace), QuoteChars)],
                               MinBracketLen)
        questions == FallbackQuestions(Split(response_text, "\n"))
    IN IF close # 0 /\ listed # <<>>
       THEN listed
       ELSE SubSeq(questions, 1,
                   IF Len(questions) < MaxFallbackQuestions
                   THEN Len(questions) ELSE MaxFallbackQuestions)

_extract_questions(response_text) ==
    LET open == Find(response_text, "[", 1)
        close == IF open = 0 THEN 0 ELSE Find(response_text, "]", open + 1)
    IN IF close # 0
       THEN LET list_content == SubSeq(response_text, open + 1, close - 1)
                pieces == Split(list_content, ",")
                questions == [k \in 1..Len(pieces) |->
                                 Strip(Strip(pieces[k], Whitespace), QuoteChars)]
            IN SelectLonger(questions, MinBracketLen)
       ELSE LET questions == FallbackQuestions(Split(response_text, "\n"))
            IN SubSeq(questions, 1,
                      IF Len(questions) < MaxFallbackQuestions
                      THEN Len(questions) ELSE MaxFallbackQuestions)

\* A bug: response.text is used outside the try, so a missing text raises.
create_research_plan_Uncaught(topic, o) ==
    LET calls == <<GenCall("plan", "none", topic)>> IN
    IF o.kind = "raise" THEN Return(<<>>, calls)
    ELSE IF o.kind = "none" THEN Raise(calls)
    ELSE Return(_extract_questions(Strip(o.text, Whitespace)), calls)

\* o is the outcome of the one generation call.
create_research_plan(topic, o) ==
    LET calls == <<GenCall("plan", "none", topic)>> IN
    IF o.kind = "raise" THEN Return(<<>>, calls)
    ELSE IF o.kind = "none" THEN Return(<<>>, calls)  \* None.strip() raises inside the try
    ELSE LET questions == _extract_questions(Strip(o.text, Whitespace))
         IN IF questions # <<>> THEN Return(questions, calls) ELSE Return(<<>>, calls)

(* ------------------------------------------------------------------ *)
(* The researchers                                                      *)
(* ------------------------------------------------------------------ *)

SearchGroundingUnsupported ==
    <<"S","e","a","r","c","h"," ","G","r","o","u","n","d","i","n","g"," ",
      "i","s"," ","n","o","t"," ","s","u","p","p","o","r","t","e","d">>

\* A bug: the fallback call is made outside any try, so its fault escapes.
SearchAgent_FallbackUncaught(question, o1, o2) ==
    LET grounded == GenCall("research", "google_search_retrieval", question)
        fallback == GenCall("fallback", "none", question)
    IN IF o1.kind # "raise"
       THEN IF HasText(o1) THEN Return(o1.text, <<grounded>>)
                           ELSE Return(<<>>, <<grounded>>)
       ELSE IF Contains(SearchGroundingUnsupported, o1.msg)
            THEN IF o2.kind # "raise"
                 THEN IF HasText(o2) THEN Return(o2.text, <<grounded, fallback>>)
                                     ELSE Return(<<>>, <<grounded, fallback>>)
                 ELSE Raise(<<grounded, fallback>>)
            ELSE Return(<<>>, <<grounded>>)

\* A bug: the fallback is tried after every fault, whatever its message.
SearchAgent_FallbackOnAnyFault(question, o1, o2) ==
    LET grounded == GenCall("research", "google_search_retrieval", question)
        fallback == GenCall("fallback", "none", question)
    IN IF o1.kind # "raise"
       THEN IF HasText(o1) THEN Return(o1.text, <<grounded>>)
                           ELSE Return(<<>>, <<grounded>>)
       ELSE IF o2.kind # "raise" /\ HasText(o2)
            THEN Return(o2.text, <<grounded, fallback>>)
            ELSE Return(<<>>, <<grounded, fallback>>)

\* agents.py SearchAgent.research_question.  o1 is the outcome of the grounded
\* call, o2 the outcome of the ungrounded fallback call if one is made.
SearchAgent_research_question(question, o1, o2) ==
    LET grounded == GenCall("research", "google_search_retrieval", question)
        fallback == GenCall("fallback", "none", question)
    IN IF o1.kind # "raise"
       THEN IF HasText(o1) THEN Return(o1.text, <<grounded>>)
                           ELSE Return(<<>>, <<grounded>>)
       ELSE \* except Exception as e
            IF Contains(SearchGroundingUnsupported, o1.msg)
            THEN IF o2.kind # "raise"
                 THEN IF HasText(o2) THEN Return(o2.text, <<grounded, fallback>>)
                                     ELSE Return(<<>>, <<grounded, fallback>>)
                 ELSE \* except Exception as fallback_error
                      Return(<<>>, <<grounded, fallback>>)
            ELSE Return(<<>>, <<grounded>>)

\* simple_research.py SimpleSearchAgent.research_question: one ungrounded call.
SimpleSearchAgent_research_question(question, o1, o2) ==
    LET only == GenCall("research", "none", question)
    IN IF o1.kind # "raise"
       THEN IF HasText(o1) THEN Return(o1.text, <<only>>)
                           ELSE Return(<<>>, <<only>>)
       ELSE Return(<<>>, <<only>>)

\* A change of policy: Method 2 only after an "unsupported grounding" fault.
GoogleSearchAgent_FallbackOnlyIfUnsupported(question, o1, o2) ==
    LET grounded == GenCall("research", "google_search_retrieval", question)
        fallback == GenCall("fallback", "none", question)
    IN IF o1.kind # "raise"
       THEN IF HasText(o1) THEN Return(o1.text, <<grounded>>)
                           ELSE Return(<<>>, <<grounded>>)
       ELSE IF Contains(SearchGroundingUnsupported, o1.msg)
            THEN IF o2.kind # "raise" /\ HasText(o2)
                 THEN Return(o2.text, <<grounded, fallback>>)
                 ELSE Return(<<>>, <<grounded, fallback>>)
            ELSE Return(<<>>, <<grounded>>)

\* google_search_research.py GoogleSearchAgent.research_question: the inner
\* try swallows every fault of the grounded call, and Method 2 runs whenever
\* Method 1 did not return.
GoogleSearchAgent_research_question(question, o1, o2) ==
    LET grounded == GenCall("research", "google_search_retrieval", question)
        fallback == GenCall("fallback", "none", question)
    IN IF o1.kind # "raise" /\ HasText(o1)
       THEN Return(o1.text, <<grounded>>)
       ELSE \* empty text, or except Exception as search_error: fall through
            IF o2.kind # "raise"
            THEN IF HasText(o2) THEN Return(o2.text, <<grounded, fallback>>)
                                ELSE Return(<<>>, <<grounded, fallback>>)
            ELSE \* outer except Exception as e
                 Return(<<>>, <<grounded, fallback>>)

Variants == {"main", "simple", "google"}

\* self.searcher.research_question of the assistant class in use.
research_question(v, question, o1, o2) ==
    CASE v = "main"   -> SearchAgent_research_question(question, o1, o2)
      [] v = "simple" -> SimpleSearchAgent_research_question(question, o1, o2)
      [] v = "google" -> GoogleSearchAgent_research_question(question, o1, o2)

(* ------------------------------------------------------------------ *)
(* SynthesizerAgent                                                     *)
(* ------------------------------------------------------------------ *)

CrossMark == "U+274C"

NoDataMsg == <<"Error: No research data available to synthesize.">>
SynthFailMsg == <<"Error: Could not generate the final report.">>

\* The notes are the concatenation of one section per pair; a section is kept
\* as the pieces the f-string joins.
RECURSIVE CompileFrom(_, _)
CompileFrom(research_results, i) ==
    IF research_results = <<>> THEN <<>>
    ELSE <<"### Research Question ", i, ": ", Head(research_results)[1],
           "**Research Findings:**", Head(research_results)[2], "---">>
         \o CompileFrom(Tail(research_results), i + 1)

\* A bug: enumerate without start=1 numbers the sections from 0.
_compile_research_notes_FromZero(research_results) == CompileFrom(research_results, 0)

_compile_research_notes(research_results) == CompileFrom(research_results, 1)

\* A bug: the empty list is not checked and the model is asked anyway.
create_final_report_Unchecked(topic, research_results, o) ==
    LET research_notes == _compile_research_notes(research_results)
        calls == <<GenCall("report", "none", <<topic, research_notes>>)>>
    IN IF o.kind # "raise"
       THEN IF HasText(o) THEN Return(o.text, calls)
                          ELSE Return(SynthFailMsg, calls)
       ELSE Return(SynthFailMsg, calls)

\* A bug: the response text is returned without testing that it is non-empty.
create_final_report_EmptyPassed(topic, research_results, o) ==
    IF research_results = <<>> THEN Return(NoDataMsg, <<>>)
    ELSE LET research_notes == _compile_research_notes(research_results)
             calls == <<GenCall("report", "none", <<topic, research_notes>>)>>
         IN IF o.kind = "text" THEN Return(o.text, calls)
                               ELSE Return(SynthFailMsg, calls)

\* o is the outcome of the one generation call, if it is made.
create_final_report(topic, research_results, o) ==
    IF research_results = <<>> THEN Return(NoDataMsg, <<>>)
    ELSE LET research_notes == _compile_research_notes(research_results)
             calls == <<GenCall("report", "none", <<topic, research_notes>>)>>
         IN IF o.kind # "raise"
            THEN IF HasText(o) THEN Return(o.text, calls)
                               ELSE Return(SynthFailMsg, calls)
            ELSE Return(SynthFailMsg, calls)

(* ------------------------------------------------------------------ *)
(* The assistant classes                                                *)
(* ------------------------------------------------------------------ *)

NotInitializedMsg == <<"Error: System not initialized. Please run initialize() first.">>
NoPlanMsg == <<CrossMark, " Could not create a research plan. Please try a different topic.">>
\* A bug: the message of the empty-plan return pasted here too.
NoFindingsMsg_SameAsNoPlan == NoPlanMsg

NoFindingsMsg ==
    <<CrossMark, " Could not find any information during research. Please try a different topic.">>

\* config.py validate_api_key: a second configure_gemini and one test call.
validate_api_key(apiKey, o) ==
    IF ~apiKey THEN FALSE
    ELSE IF o.kind = "raise" THEN FALSE
    ELSE o.kind # "none"

\* time.sleep(1) in main.py, time.sleep(2) in the other two assistants.
PauseSeconds(v) == IF v = "main" THEN 1 ELSE 2

\* A bug: the pair is appended whether or not the finding is empty.
AccumulateAlways(research_results, question, research_data) ==
    Append(research_results, <<question, research_data>>)

\* `if research_data: research_results.append((question, research_data))'
Accumulate(research_results, question, research_data) ==
    IF research_data # <<>>
    THEN Append(research_results, <<question, research_data>>)
    ELSE research_results

\* A bug: the empty plan is not noticed.
PlanIsEmptyNever(plan) == FALSE

\* `if not research_plan:' after the Planner returned.
PlanIsEmpty(plan) == plan = <<>>

\* A bug: the loop runs one step past the end of the plan.
MoreQuestionsOffByOne(k, plan) == k <= Len(plan)

\* `for i, question in enumerate(research_plan, 1)': is there a question after
\* the k-th?
MoreQuestions(k, plan) == k < Len(plan)

\* A bug: the empty result list is not noticed.
NoResultsNever(results) == FALSE

\* `if not research_results:' after the loop.
NoResults(results) == results = <<>>

(* ------------------------------------------------------------------ *)
(* Inputs                                                               *)
(* ------------------------------------------------------------------ *)

MaxPlan == 3
MaxRuns == 2
MaxResults == 2

SeqUpTo(S, n) == UNION {[1..k -> S] : k \in 0..n}

RECURSIVE Join(_, _)
Join(parts, sep) ==
    IF parts = <<>> THEN <<>>
    ELSE IF Len(parts) = 1 THEN Head(parts)
    ELSE Head(parts) \o sep \o Join(Tail(parts), sep)

QWhatIsAI == <<"W","h","a","t"," ","i","s"," ","A","I","?">>
QWhyUseTLA == <<"W","h","y"," ","u","s","e"," ","T","L","A","?">>
QIsItSo == <<"I","s"," ","i","t"," ","s","o","?">>

LongQuestions == {QWhatIsAI, QWhyUseTLA}
ShortQuestions == {QIsItSo}
Questions == LongQuestions \cup ShortQuestions

Topics == {<<"A","I">>, <<"T","L","A","+">>}

DigitChar == <<"1", "2", "3", "4", "5", "6", "7", "8", "9">>

\* ["q1", "q2"]: the format the Planner's prompt asks for.
BracketResponse(qs) ==
    <<"[">> \o Join([k \in 1..Len(qs) |-> <<"\"">> \o qs[k] \o <<"\"">>], <<",", " ">>)
            \o <<"]">>

\* 1. q1 / 2. q2, one per line: what the line-based fallback reads.
NumberedResponse(qs) ==
    Join([k \in 1..Len(qs) |-> <<DigitChar[k], ".", " ">> \o qs[k]], <<"\n">>)

PlainProse == <<"P","l","a","i","n"," ","p","r","o","s","e">>

PlanResponses ==
    {BracketResponse(qs) : qs \in SeqUpTo(LongQuestions, MaxPlan)}
    \cup {NumberedResponse(qs) : qs \in SeqUpTo(ShortQuestions, MaxPlan)}
    \cup {PlainProse}

\* Response texts for the Planner's parsing: what the model might answer
\* instead of the list the prompt asks for.
MaxLines == 2
MaxItems == 6

WhatIsX == <<"W","h","a","t"," ","i","s"," ","X","?">>
HowDoesYWork == <<"H","o","w"," ","d","o","e","s"," ","Y"," ","w","o","r","k","?">>
WhyZ == <<"W","h","y"," ","Z","?">>
RandomText == <<"R","a","n","d","o","m"," ","t","e","x","t"," ","w","i","t","h","o","u","t"," ","m","a","r","k","e","r","s">>
LongQuestionLine == <<"W","h","i","c","h"," ","o","f"," ","X"," ","a","n","d"," ","Y"," ","i","s"," ","f","a","s","t","e","r","?">>

LineMarkers == {<<>>, <<"1", ".", " ">>, <<"*">>, <<"6", ".", " ">>, <<" ", "-", " ">>}
LineBodies == {<<>>, WhatIsX, LongQuestionLine}
ResponseLines ==
    {m \o b : m \in LineMarkers, b \in LineBodies}
    \cup {RandomText,
          <<"1", ".", " ", "\"">> \o HowDoesYWork \o <<"\"">>,
          <<"[">> \o HowDoesYWork,
          <<"-", " ", "[">> \o HowDoesYWork}

LineResponses == {Join(ls, <<"\n">>) : ls \in SeqUpTo(ResponseLines, MaxLines)}
ManyLineResponses ==
    {Join(ls, <<"\n">>) :
        ls \in SeqUpTo({<<"1", ".", " ">> \o WhatIsX, RandomText}, MaxItems)}
BracketResponses ==
    {BracketResponse(qs) : qs \in SeqUpTo({WhatIsX, HowDoesYWork, WhyZ}, MaxItems)}

\* Three lines: an ordinal line, a bullet line and a line without marker.
FallbackExample ==
    Join(<<(<<"1", ".", " ">> \o WhatIsX), (<<"-", " ">> \o HowDoesYWork), RandomText>>,
         <<"\n">>)

\* Responses that mix lines and brackets: text before the list, a list whose
\* items are too short, unquoted or hold a comma, a second list, a stray ']'.
CommaQuestion == <<"W", "h", "a", "t", ",", " ", "e", "x", "a", "c", "t", "l", "y", ",", " ", "i", "s", " ", "X", " ", "a", "n", "d", " ", "w", "h", "y", "?">>
BeforeBracket == {<<>>, <<"]">>, <<"-", " ">> \o HowDoesYWork,
                  <<"1", ".", " ">> \o LongQuestionLine}
Bracketed == {BracketResponse(<<>>),
              BracketResponse(<<WhatIsX>>),
              BracketResponse(<<HowDoesYWork, LongQuestionLine>>),
              BracketResponse(<<CommaQuestion>>),
              <<"[", " ">> \o HowDoesYWork \o <<" ", ",", "\t", "'">> \o WhyZ
                  \o <<"'", ",">> \o LongQuestionLine \o <<"]">>,
              <<"[">> \o HowDoesYWork}
AfterBracket == {<<>>, <<"\n", "*", " ">> \o LongQuestionLine,
                 <<" ", "[">> \o LongQuestionLine \o <<"]">>}
MixedResponses ==
    {pre \o <<"\n">> \o br \o post :
        pre \in BeforeBracket, br \in Bracketed, post \in AfterBracket}

ParseTexts ==
    LineResponses \cup ManyLineResponses \cup BracketResponses \cup {FallbackExample}
        \cup MixedResponses

\* Exception messages: the phrase alone, the phrase inside a longer message,
\* a near miss, and an unrelated fault.
MsgUnsupported == SearchGroundingUnsupported
MsgUnsupportedWrapped ==
    <<"4","0","0"," ">> \o SearchGroundingUnsupported \o <<".">>
MsgGroundingFailed ==
    <<"S","e","a","r","c","h"," ","G","r","o","u","n","d","i","n","g"," ",
      "f","a","i","l","e","d">>
MsgQuota == <<"q","u","o","t","a">>

Messages == {MsgUnsupported, MsgUnsupportedWrapped, MsgGroundingFailed, MsgQuota}

FindingTexts == {<<"A1">>, <<"A2">>}
ReportTexts == {<<"R1">>}

Failures == {NoneOutcome} \cup {RaiseOutcome(m) : m \in Messages}
PlanOutcomes == {TextOutcome(t) : t \in PlanResponses} \cup Failures
ResearchOutcomes == {TextOutcome(t) : t \in FindingTexts \cup {<<>>}} \cup Failures
ReportOutcomes == {TextOutcome(t) : t \in ReportTexts \cup {<<>>}} \cup Failures
ProbeOutcomes == {TextOutcome(<<"H","i">>), TextOutcome(<<>>)} \cup Failures

(* ------------------------------------------------------------------ *)
(* State                                                                *)
(* ------------------------------------------------------------------ *)

VARIABLES
    variant,           \* which assistant class was constructed
    model,             \* self.model: "None" or "handle"
    agents,            \* self.planner, self.searcher, self.synthesizer: "None" or "set"
    initResult,        \* what initialize() returned: "uncalled", "True", "False"
    pc,                \* "idle", or the outbound call conduct_research is blocked in
    outcome,           \* how the last conduct_research ended: "none", "returned", "raised"
    topic,             \* the argument of the run
    research_plan,     \* local of conduct_research
    i,                 \* enumerate index of the loop
    research_results,  \* local of conduct_research
    report,            \* the value conduct_research returned
    runs,              \* conduct_research calls started so far
    findings,          \* history: research_data of each plan position done so far
    trace,             \* history: agents invoked and pauses taken in this run
    synthArgs,         \* history: research_results of each create_final_report call
    synthRets,         \* history: what each create_final_report call returned
    call,              \* the last direct call of an agent method, outside a run
    shown,             \* what the interactive loop did with the last run's result
    earlier            \* history: what the run before this one left behind

vars == <<variant, model, agents, initResult, pc, outcome, topic, research_plan, i,
          research_results, report, runs, findings, trace, synthArgs, synthRets, call,
          shown, earlier>>

assistant == <<variant, model, agents, initResult>>
locals == <<topic, research_plan, i, research_results>>
history == <<findings, trace, synthArgs, synthRets>>

NoCall == [fn |-> "none"]
NoTopic == <<>>
NoReport == <<"<no value>">>

NoEarlierRun == [run |-> FALSE, failed_with_pairs |-> FALSE]

\* What a finished run leaves behind when the next one starts: whether it
\* ended in a failure outcome with pairs accumulated.
Leftover ==
    [run |-> TRUE,
     failed_with_pairs |->
         /\ research_results # <<>>
         /\ \/ outcome # "returned"
            \/ report \in {NotInitializedMsg, NoPlanMsg, NoFindingsMsg, SynthFailMsg}]

Event(op, arg) == [op |-> op, arg |-> arg]

\* __init__ of the assistant class.
Init ==
    /\ variant \in Variants
    /\ model = "None" /\ agents = "None" /\ initResult = "uncalled"
    /\ pc = "idle" /\ outcome = "none"
    /\ topic = NoTopic /\ research_plan = <<>> /\ i = 0 /\ research_results = <<>>
    /\ report = NoReport /\ runs = 0
    /\ findings = <<>> /\ trace = <<>> /\ synthArgs = <<>> /\ synthRets = <<>>
    /\ call = NoCall
    /\ shown = "nothing"
    /\ earlier = NoEarlierRun

(* ------------------------------------------------------------------ *)
(* initialize                                                           *)
(* ------------------------------------------------------------------ *)

\* apiKey: whether GOOGLE_API_KEY is set; o: the outcome of the test call.
initialize(apiKey, o) ==
    /\ pc = "idle" /\ initResult = "uncalled"
    /\ IF ~apiKey
       THEN \* configure_gemini raises ValueError: caught, self.model stays None
            /\ initResult' = "False"
            /\ UNCHANGED <<model, agents>>
       ELSE /\ model' = "handle"
            /\ IF validate_api_key(apiKey, o)
               THEN agents' = "set" /\ initResult' = "True"
               ELSE agents' = agents /\ initResult' = "False"
    /\ UNCHANGED <<variant, pc, outcome, locals, report, runs, history, call, shown, earlier>>

Initialize == \E apiKey \in BOOLEAN, o \in ProbeOutcomes : initialize(apiKey, o)

(* ------------------------------------------------------------------ *)
(* conduct_research, from one outbound call to the next                 *)
(* ------------------------------------------------------------------ *)

\* The run ends by returning r.
ReturnReport(r) ==
    /\ pc' = "idle" /\ outcome' = "returned" /\ report' = r

\* An exception leaves conduct_research, which has no handler of its own.
Propagate ==
    /\ pc' = "idle" /\ outcome' = "raised" /\ report' = NoReport

\* A bug: the accumulated list is an attribute of the assistant, set up once
\* and never emptied, so a run appends to what the run before it left.
StartKeepsResults(t) ==
    /\ pc = "idle" /\ runs < MaxRuns
    /\ runs' = runs + 1
    /\ topic' = t
    /\ research_plan' = <<>> /\ i' = 0 /\ research_results' = research_results
    /\ findings' = <<>> /\ synthArgs' = <<>> /\ synthRets' = <<>>
    /\ IF model = "None"
       THEN ReturnReport(NotInitializedMsg) /\ trace' = <<>>
       ELSE IF agents = "None"
       THEN \* self.planner is None: AttributeError
            Propagate /\ trace' = <<>>
       ELSE /\ pc' = "planning" /\ outcome' = "none" /\ report' = NoReport
            /\ trace' = <<Event("planner", 0)>>
    /\ shown' = "nothing"
    /\ earlier' = IF runs = 0 THEN NoEarlierRun ELSE Leftover
    /\ UNCHANGED <<assistant, call>>

\* Entry, up to the Planner's generation call.
Start(t) ==
    /\ pc = "idle" /\ runs < MaxRuns
    /\ runs' = runs + 1
    /\ topic' = t
    /\ research_plan' = <<>> /\ i' = 0 /\ research_results' = <<>>
    /\ findings' = <<>> /\ synthArgs' = <<>> /\ synthRets' = <<>>
    /\ IF model = "None"
       THEN ReturnReport(NotInitializedMsg) /\ trace' = <<>>
       ELSE IF agents = "None"
       THEN \* self.planner is None: AttributeError
            Propagate /\ trace' = <<>>
       ELSE /\ pc' = "planning" /\ outcome' = "none" /\ report' = NoReport
            /\ trace' = <<Event("planner", 0)>>
    /\ shown' = "nothing"
    /\ earlier' = IF runs = 0 THEN NoEarlierRun ELSE Leftover
    /\ UNCHANGED <<assistant, call>>

\* The Planner returns; step 1 ends and the loop reaches its first question.
Plan(o) ==
    /\ pc = "planning"
    /\ LET r == create_research_plan(topic, o) IN
       IF r.raised
       THEN Propagate /\ UNCHANGED <<research_plan, i, trace>>
       ELSE /\ research_plan' = r.value
            /\ IF PlanIsEmpty(r.value)
               THEN ReturnReport(NoPlanMsg) /\ UNCHANGED <<i, trace>>
               ELSE /\ pc' = "researching" /\ i' = 1
                    /\ trace' = Append(trace, Event("researcher", 1))
                    /\ UNCHANGED <<outcome, report>>
    /\ UNCHANGED <<assistant, topic, research_results, runs,
                   findings, synthArgs, synthRets, call, shown, earlier>>

\* A bug: time.sleep sits inside `if research_data:', so a question without
\* finding is followed by no pause.
ResearchPausesOnlyAfterFinding(o1, o2) ==
    /\ pc = "researching"
    /\ LET question == research_plan[i]
           r == research_question(variant, question, o1, o2)
       IN IF r.raised
          THEN Propagate /\ UNCHANGED <<research_results, findings, trace>>
          ELSE /\ research_results' = Accumulate(research_results, question, r.value)
               /\ findings' = Append(findings, r.value)
               /\ pc' = "sleeping"
               /\ trace' = IF r.value # <<>>
                           THEN Append(trace, Event("sleep", PauseSeconds(variant)))
                           ELSE trace
               /\ UNCHANGED <<outcome, report>>
    /\ UNCHANGED <<assistant, topic, research_plan, i, runs, synthArgs, synthRets, call, shown, earlier>>

\* The Researcher returns for question i; the pair is kept or dropped and the
\* run pauses.
Research(o1, o2) ==
    /\ pc = "researching"
    /\ LET question == research_plan[i]
           r == research_question(variant, question, o1, o2)
       IN IF r.raised
          THEN Propagate /\ UNCHANGED <<research_results, findings, trace>>
          ELSE /\ research_results' = Accumulate(research_results, question, r.value)
               /\ findings' = Append(findings, r.value)
               /\ pc' = "sleeping"
               /\ trace' = Append(trace, Event("sleep", PauseSeconds(variant)))
               /\ UNCHANGED <<outcome, report>>
    /\ UNCHANGED <<assistant, topic, research_plan, i, runs, synthArgs, synthRets, call, shown, earlier>>

\* The pause ends: the next question, or the end of the loop and step 3.
Wake ==
    /\ pc = "sleeping"
    /\ IF MoreQuestions(i, research_plan)
       THEN /\ i' = i + 1 /\ pc' = "researching"
            /\ trace' = Append(trace, Event("researcher", i + 1))
            /\ UNCHANGED <<outcome, report, synthArgs>>
       ELSE IF NoResults(research_results)
       THEN ReturnReport(NoFindingsMsg) /\ UNCHANGED <<i, trace, synthArgs>>
       ELSE /\ pc' = "synthesizing"
            /\ trace' = Append(trace, Event("synthesizer", 0))
            /\ synthArgs' = Append(synthArgs, research_results)
            /\ UNCHANGED <<i, outcome, report>>
    /\ UNCHANGED <<assistant, topic, research_plan, research_results, runs,
                   findings, synthRets, call, shown, earlier>>

\* A bug: a failed synthesis is tried again instead of being returned.
SynthesizeRetry(o) ==
    /\ pc = "synthesizing"
    /\ LET r == create_final_report(topic, research_results, o) IN
       IF r.value = SynthFailMsg /\ Len(synthArgs) < 2
       THEN /\ synthArgs' = Append(synthArgs, research_results)
            /\ trace' = Append(trace, Event("synthesizer", 0))
            /\ UNCHANGED <<pc, outcome, report>>
       ELSE ReturnReport(r.value) /\ UNCHANGED <<synthArgs, trace>>
    /\ synthRets' = Append(synthRets, create_final_report(topic, research_results, o).value)
    /\ UNCHANGED <<assistant, locals, runs, findings, call, shown, earlier>>

\* The Synthesizer returns and conduct_research returns its report.
Synthesize(o) ==
    /\ pc = "synthesizing"
    /\ LET r == create_final_report(topic, research_results, o) IN
       IF r.raised
       THEN Propagate /\ UNCHANGED synthRets
       ELSE /\ ReturnReport(r.value)
            /\ synthRets' = Append(synthRets, r.value)
    /\ UNCHANGED <<assistant, locals, runs, findings, trace, synthArgs, call, shown, earlier>>

\* main(): what the interactive loop does with the result of the run it just
\* made.  The loop is entered only after initialize() returned True, so the
\* run it presents is one that reached the Planner.
\* save_choice: whether the user answers y or yes to the save prompt.
Present(save_choice) ==
    /\ pc = "idle" /\ initResult = "True" /\ trace # <<>> /\ shown = "nothing"
    /\ IF outcome = "raised"
       THEN shown' = "exception printed"
       ELSE IF StartsWith(report, <<CrossMark>>)
       THEN shown' = "message printed"
       ELSE \* display_report, then the save prompt
            shown' = IF save_choice THEN "report displayed and saved"
                                    ELSE "report displayed"
    /\ UNCHANGED <<assistant, pc, outcome, locals, report, runs, history, call, earlier>>

Next ==
    \/ Initialize
    \/ \E t \in Topics : Start(t)
    \/ \E o \in PlanOutcomes : Plan(o)
    \/ \E o1, o2 \in ResearchOutcomes : Research(o1, o2)
    \/ Wake
    \/ \E o \in ReportOutcomes : Synthesize(o)
    \/ \E save_choice \in BOOLEAN : Present(save_choice)

Spec == Init /\ [][Next]_vars

(* ------------------------------------------------------------------ *)
(* The agents called directly, as example_usage.py does                 *)
(* ------------------------------------------------------------------ *)

Pairs == Questions \X FindingTexts

Called(fn, agent, arg, results, o1, o2, ret) ==
    [fn |-> fn, agent |-> agent, arg |-> arg, results |-> results,
     o1 |-> o1, o2 |-> o2, ret |-> ret]

orchestration == <<assistant, pc, outcome, locals, report, runs, history, shown, earlier>>

CallPlanner ==
    \E t \in Topics, o \in PlanOutcomes :
        /\ call = NoCall
        /\ call' = Called("create_research_plan", "planner", t, <<>>, o, NoneOutcome,
                          create_research_plan(t, o))
        /\ UNCHANGED orchestration

CallResearcher ==
    \E v \in Variants, q \in Questions, o1 \in ResearchOutcomes, o2 \in ResearchOutcomes :
        /\ call = NoCall
        /\ call' = Called("research_question", v, q, <<>>, o1, o2,
                          research_question(v, q, o1, o2))
        /\ UNCHANGED orchestration

CallSynthesizer ==
    \E t \in Topics, rs \in SeqUpTo(Pairs, MaxResults), o \in ReportOutcomes :
        /\ call = NoCall
        /\ call' = Called("create_final_report", "synthesizer", t, rs, o, NoneOutcome,
                          create_final_report(t, rs, o))
        /\ UNCHANGED orchestration

InitAgents == Init /\ variant = "main"

NextAgents == CallPlanner \/ CallResearcher \/ CallSynthesizer

SpecAgents == InitAgents /\ [][NextAgents]_vars

(* ------------------------------------------------------------------ *)
(* The Planner's parsing on its own                                     *)
(* ------------------------------------------------------------------ *)

\* self._extract_questions(plan_str) on one response text.
ExtractQuestions ==
    \E text \in ParseTexts :
        /\ call = NoCall
        /\ call' = Called("_extract_questions", "planner", text, <<>>,
                          NoneOutcome, NoneOutcome,
                          Return(_extract_questions(text), <<>>))
        /\ UNCHANGED orchestration

\* create_research_plan when the generation call answers with the text.
PlanFromResponse ==
    \E text \in ParseTexts :
        /\ call = NoCall
        /\ call' = Called("create_research_plan", "planner", <<"A", "I">>, <<>>,
                          TextOutcome(text), NoneOutcome,
                          create_research_plan(<<"A", "I">>, TextOutcome(text)))
        /\ UNCHANGED orchestration

NextParse == ExtractQuestions \/ PlanFromResponse

SpecParse == InitAgents /\ [][NextParse]_vars

(* ------------------------------------------------------------------ *)
(* Properties of conduct_research                                       *)
(* ------------------------------------------------------------------ *)

Returned == pc = "idle" /\ outcome = "returned"
PlannerInvoked == trace # <<>>
LoopDone == Len(findings) = Len(research_plan)
Positions(op) == {k \in 1..Len(trace) : trace[k].op = op}

\* The plan positions researched so far whose finding is not empty.
Kept == {k \in 1..Len(findings) : findings[k] # <<>>}

\* The n-th kept position, counting from 1 in plan order.
KeptAt(n) == CHOOSE k \in Kept : Cardinality({j \in Kept : j <= k}) = n

\* C1: create_final_report is never invoked with an empty research_results
\* list, the Synthesizer is not invoked while every finding so far is empty,
\* and a run whose findings are all empty returns the no-findings message.
C1_NeverSynthesizesNothing ==
    /\ \A k \in 1..Len(synthArgs) : synthArgs[k] # <<>>
    /\ Kept = {} => synthArgs = <<>> /\ Positions("synthesizer") = {}
    /\ (Returned /\ research_plan # <<>> /\ Kept = {})
           => report = NoFindingsMsg /\ LoopDone /\ synthRets = <<>>

C1_Witness ==
    /\ Returned /\ Len(research_plan) >= 2 /\ LoopDone /\ Kept = {}
    /\ report = NoFindingsMsg

\* C2: the list accumulated, and the list handed to the Synthesizer, is the
\* pairs (question, finding) of exactly the plan positions whose finding is not
\* empty, in plan order, one pair per position (duplicate questions included).
C2_PairsAreKeptFindingsInPlanOrder ==
    /\ PlannerInvoked =>
          /\ Len(research_results) = Cardinality(Kept)
          /\ \A n \in 1..Len(research_results) :
                research_results[n] = <<research_plan[KeptAt(n)], findings[KeptAt(n)]>>
    /\ \A k \in 1..Len(synthArgs) : LoopDone /\ synthArgs[k] = research_results

C2_Witness ==
    /\ Len(synthArgs) = 1 /\ Len(research_plan) = 3
    /\ research_plan[1] = research_plan[3]
    /\ findings[1] # <<>> /\ findings[2] = <<>> /\ findings[3] # <<>>
    /\ findings[1] # findings[3]
    /\ Len(synthArgs[1]) = 2

\* C3: when the Planner returns an empty plan the run returns the "could not
\* create a research plan" message, and the Researcher, the Synthesizer and the
\* pause have not been reached.
C3_EmptyPlanAborts ==
    (PlannerInvoked /\ pc # "planning" /\ research_plan = <<>>)
        => /\ Returned /\ report = NoPlanMsg
           /\ trace = <<Event("planner", 0)>>
           /\ findings = <<>> /\ synthArgs = <<>> /\ synthRets = <<>>

C3_Witness ==
    PlannerInvoked /\ Returned /\ research_plan = <<>> /\ report = NoPlanMsg

\* The trace of a run is the Planner, then for k = 1, 2, ... the Researcher on
\* question k followed by its pause, then possibly the Synthesizer.
TraceIsLinear ==
    \A k \in 1..Len(trace) :
        /\ (trace[k].op = "planner") = (k = 1)
        /\ trace[k].op = "researcher" =>
              /\ k % 2 = 0 /\ trace[k].arg = k \div 2
              /\ trace[k].arg <= Len(research_plan)
        /\ trace[k].op = "sleep" => k > 1 /\ trace[k - 1].op = "researcher"
        /\ trace[k].op = "synthesizer" =>
              /\ k = Len(trace)
              /\ k = 2 * Len(research_plan) + 2

\* C4: in a run on an initialized assistant the Planner is invoked exactly once
\* and first, the Researcher once per plan element in plan order, each after the
\* previous question's research returned, the Synthesizer at most once and last;
\* a finished run researched every element, and nothing is invoked after the run
\* has returned.
C4_InvocationsAreLinear ==
    /\ [](TraceIsLinear
          /\ (PlannerInvoked /\ Returned /\ research_plan # <<>>
                 => Cardinality(Positions("researcher")) = Len(research_plan)))
    /\ [][/\ (pc = "idle" /\ pc' = "idle" => trace' = trace \/ trace' = <<>>)
          /\ (runs' # runs /\ initResult = "True" => trace' = <<Event("planner", 0)>>)
          /\ (runs' = runs /\ trace # trace' =>
                 Len(trace') = Len(trace) + 1 /\ SubSeq(trace', 1, Len(trace)) = trace)
         ]_vars

C4_Witness ==
    /\ Returned /\ Len(research_plan) = 3
    /\ Cardinality(Positions("researcher")) = 3
    /\ trace[Len(trace)].op = "synthesizer"

\* C5: a run with at least one non-empty finding invokes the Synthesizer exactly
\* once, after the whole plan was researched, and returns exactly what the
\* Synthesizer returned, the failure sentinel included.
C5_ReturnsTheSynthesizersReport ==
    /\ Len(synthArgs) <= 1
    /\ (pc = "idle" /\ Kept # {})
           => /\ Returned /\ LoopDone
              /\ Len(synthArgs) = 1 /\ Len(synthRets) = 1
              /\ Cardinality(Positions("synthesizer")) = 1
              /\ report = synthRets[1]

C5_Witness ==
    /\ Returned /\ Kept # {} /\ synthRets = <<SynthFailMsg>> /\ report = SynthFailMsg

(* ------------------------------------------------------------------ *)
(* Properties of the agents                                             *)
(* ------------------------------------------------------------------ *)

Researched == call # NoCall /\ call.fn = "research_question"
Synthesized == call # NoCall /\ call.fn = "create_final_report"

\* The outcome of the n-th generation call of a research_question call.
Attempt(n) == IF n = 1 THEN call.o1 ELSE call.o2
AnswersWithText(o) == o.kind = "text" /\ o.text \in FindingTexts
FallbackCalls == {n \in 1..Len(call.ret.calls) : call.ret.calls[n].prompt = "fallback"}
SaysUnsupported(o) ==
    o.kind = "raise" /\ o.msg \in {MsgUnsupported, MsgUnsupportedWrapped}

\* C6: for each of the three researchers, research_question does not raise
\* whatever the generation calls do, it returns a string, and the string is
\* empty unless one of the calls it made returned non-empty text, which is then
\* the string returned.
C6_ResearchNeverRaises ==
    Researched =>
        /\ ~call.ret.raised
        /\ call.ret.value \in FindingTexts \cup {<<>>}
        /\ call.ret.value # <<>> =>
              \E n \in 1..Len(call.ret.calls) :
                  AnswersWithText(Attempt(n)) /\ call.ret.value = Attempt(n).text

C6_Witness ==
    /\ Researched /\ call.agent = "main"
    /\ call.o1 = RaiseOutcome(MsgUnsupported) /\ call.o2 = RaiseOutcome(MsgQuota)
    /\ Len(call.ret.calls) = 2 /\ call.ret.value = <<>> /\ ~call.ret.raised

\* C7: SearchAgent.research_question makes the ungrounded fallback call exactly
\* once when the grounded call raised with a message containing "Search
\* Grounding is not supported", and not at all otherwise (another fault, or a
\* response with or without text); so it makes at most two generation calls,
\* the grounded one first.
C7_FallbackIffGroundingUnsupported ==
    (Researched /\ call.agent = "main") =>
        /\ Cardinality(FallbackCalls) = IF SaysUnsupported(call.o1) THEN 1 ELSE 0
        /\ Len(call.ret.calls) = 1 + Cardinality(FallbackCalls)
        /\ call.ret.calls[1].tools = "google_search_retrieval"
        /\ FallbackCalls \subseteq {2}
        /\ \A n \in FallbackCalls : call.ret.calls[n].tools = "none"

C7_Witness ==
    /\ Researched /\ call.agent = "main"
    /\ call.o1 = RaiseOutcome(MsgUnsupportedWrapped)
    /\ AnswersWithText(call.o2) /\ call.ret.value = call.o2.text
    /\ Len(call.ret.calls) = 2

\* C8 as claimed: GoogleSearchAgent.research_question attempts the fallback
\* call only after an "unsupported grounding" fault; after any other fault it
\* makes no fallback call and returns the empty finding.
C8_FallbackOnlyIfUnsupported ==
    (Researched /\ call.agent = "google") =>
        /\ FallbackCalls # {} => SaysUnsupported(call.o1)
        /\ (call.o1.kind = "raise" /\ ~SaysUnsupported(call.o1)) => call.ret.value = <<>>

\* C8 as amended: GoogleSearchAgent.research_question attempts the fallback
\* call exactly once whenever the grounded call raises any fault or returns no
\* text, and never when it returns text; the finding is empty exactly when
\* neither call returned text.
C8_FallbackWheneverNoGroundedText ==
    (Researched /\ call.agent = "google") =>
        /\ ~call.ret.raised
        /\ Cardinality(FallbackCalls) = IF AnswersWithText(call.o1) THEN 0 ELSE 1
        /\ Len(call.ret.calls) = 1 + Cardinality(FallbackCalls)
        /\ call.ret.value = IF AnswersWithText(call.o1) THEN call.o1.text
                            ELSE IF AnswersWithText(call.o2) THEN call.o2.text
                            ELSE <<>>

C8_Witness ==
    /\ Researched /\ call.agent = "google"
    /\ call.o1 = RaiseOutcome(MsgQuota)
    /\ AnswersWithText(call.o2) /\ call.ret.value = call.o2.text
    /\ FallbackCalls = {2}

\* C9: create_final_report called with an empty research_results list returns
\* "Error: No research data available to synthesize." and makes no generation
\* call, whatever the topic.
C9_EmptyResultsNoCall ==
    (Synthesized /\ call.results = <<>>) =>
        /\ ~call.ret.raised
        /\ call.ret.value = <<"Error: No research data available to synthesize.">>
        /\ call.ret.calls = <<>>

C9_Witness ==
    /\ Synthesized /\ call.results = <<>> /\ call.o1 = TextOutcome(<<"R1">>)
    /\ call.ret.value = NoDataMsg /\ call.ret.calls = <<>>

\* C10: create_final_report called with a non-empty list makes exactly one
\* generation call and does not raise; it returns the response text when there
\* is some, and otherwise (a fault, text None or "") the string "Error: Could
\* not generate the final report.", which is not the empty-list sentinel.
C10_OneCallReportOrSentinel ==
    (Synthesized /\ call.results # <<>>) =>
        /\ ~call.ret.raised
        /\ Len(call.ret.calls) = 1
        /\ call.ret.value =
              IF call.o1.kind = "text" /\ call.o1.text # <<>> THEN call.o1.text
              ELSE <<"Error: Could not generate the final report.">>
        /\ call.ret.value # <<>>
        /\ call.ret.value # NoDataMsg

C10_Witness ==
    /\ Synthesized /\ Len(call.results) = 2 /\ call.o1 = RaiseOutcome(MsgQuota)
    /\ call.ret.value = SynthFailMsg /\ Len(call.ret.calls) = 1

(* ------------------------------------------------------------------ *)
(* Failure outcomes                                                     *)
(* ------------------------------------------------------------------ *)

\* C11: the empty-plan, no-findings and synthesis-failure outcomes of a run are
\* three different strings, and the string a run returns tells the stage that
\* failed: the no-plan message exactly after an empty plan, the no-findings
\* message exactly after a plan whose findings were all empty, and the
\* synthesis-failure message only after the Synthesizer was invoked.
C11_FailureOutcomesDistinct ==
    (Returned /\ PlannerInvoked) =>
        /\ (report = NoPlanMsg) = (research_plan = <<>>)
        /\ (report = NoFindingsMsg) = (research_plan # <<>> /\ Kept = {})
        /\ (report = SynthFailMsg) => (Kept # {} /\ Len(synthArgs) = 1)
        /\ Cardinality({NoPlanMsg, NoFindingsMsg, SynthFailMsg} \cap {report}) <= 1
        /\ Cardinality({NoPlanMsg, NoFindingsMsg, SynthFailMsg}) = 3

C11_Witness ==
    /\ Returned /\ PlannerInvoked /\ Len(research_plan) = 1 /\ Kept = {}
    /\ report = NoFindingsMsg /\ report # NoPlanMsg /\ report # SynthFailMsg

(* ------------------------------------------------------------------ *)
(* The Planner's parsing                                                *)
(* ------------------------------------------------------------------ *)

Extracted == call.fn = "_extract_questions"
Planned == call.fn = "create_research_plan"

\* The response text ["What is X?", "How does Y work?", "Why Z?"].
BracketExample == BracketResponse(<<WhatIsX, HowDoesYWork, WhyZ>>)

\* C13 as stated: extraction on the example response yields all three items.
C13_ExampleYieldsAllThree ==
    (Extracted /\ call.arg = BracketExample) =>
        call.ret.value = <<WhatIsX, HowDoesYWork, WhyZ>>

\* C13: extraction on the response ["What is X?", "How does Y work?", "Why Z?"]
\* yields exactly ["How does Y work?"]: "What is X?" has 10 characters and
\* "Why Z?" has 6, and only items longer than 10 characters are kept.
C13_ExampleYieldsLongItem ==
    (Extracted /\ call.arg = BracketExample) =>
        /\ call.ret.value = <<HowDoesYWork>>
        /\ Len(WhatIsX) = 10 /\ Len(WhyZ) = 6 /\ Len(HowDoesYWork) = 16

C13_Witness ==
    Extracted /\ call.arg = BracketExample /\ Len(call.ret.value) = 1

\* A '[' with a ']' somewhere after it.
HasBracketPair(text) ==
    \E a \in 1..Len(text), b \in 1..Len(text) :
        a < b /\ text[a] = "[" /\ text[b] = "]"

\* The marker rules, on a line without its surrounding whitespace.
Marked(line) ==
    \/ Len(line) >= 2 /\ line[1] \in {"1", "2", "3", "4", "5"} /\ line[2] = "."
    \/ Len(line) >= 1 /\ line[1] \in {"-", "*"}
    \/ (\E k \in 1..Len(line) : line[k] = "?") /\ Len(line) > 20

Unmarked(line) == Strip(StripBullet(StripOrdinal(line)), QuoteChars)
NotEmpty(q) == q # <<>>
FirstN(qs, n) == SubSeq(qs, 1, IF Len(qs) < n THEN Len(qs) ELSE n)

\* The marked lines of a text in line order, marker and quotes stripped.
MarkedLines(text) ==
    LET raw == Split(text, "\n")
        lines == [k \in 1..Len(raw) |-> Strip(raw[k], Whitespace)]
        marked == SelectSeq(lines, Marked)
    IN [k \in 1..Len(marked) |-> Unmarked(marked[k])]

\* C12 as stated: create_research_plan returns at most 5 questions; after a
\* bracket pair each has more than 10 characters, otherwise each comes from a
\* line that satisfies the marker rules.
C12_AtMostFiveQuestions ==
    Planned =>
        LET text == Strip(call.o1.text, Whitespace)
            qs == call.ret.value
        IN /\ ~call.ret.raised
           /\ Len(qs) <= 5
           /\ HasBracketPair(text) => \A k \in 1..Len(qs) : Len(qs[k]) > 10
           /\ ~HasBracketPair(text) =>
                  \A k \in 1..Len(qs) :
                      \E n \in 1..Len(MarkedLines(text)) : qs[k] = MarkedLines(text)[n]

\* C14 as stated: without a bracket pair the questions are the marked lines in
\* line order, marker and quotes stripped, truncated to the first 5.
C14_EveryMarkedLineIsAQuestion ==
    (Extracted /\ ~HasBracketPair(call.arg)) =>
        call.ret.value = FirstN(MarkedLines(call.arg), 5)

\* C14: without a bracket pair the questions are, in line order, the marked
\* lines with marker and quotes stripped, less those of which nothing is left
\* after the stripping, truncated to the first 5; the example lines
\* '1. What is X?', '- How does Y work?', 'Random text without markers' yield
\* the first two without their markers.
C14_MarkedNonEmptyLinesAreTheQuestions ==
    (Extracted /\ ~HasBracketPair(call.arg)) =>
        /\ call.ret.value = FirstN(SelectSeq(MarkedLines(call.arg), NotEmpty), 5)
        /\ call.arg = FallbackExample => call.ret.value = <<WhatIsX, HowDoesYWork>>

C14_Witness ==
    /\ Extracted /\ ~HasBracketPair(call.arg)
    /\ Len(MarkedLines(call.arg)) = 6
    /\ Len(call.ret.value) = 5

\* C15: create_research_plan issues exactly one generation call, built around
\* the topic, and never raises; it returns the empty list when that call
\* raises, when the response has no text, and when the text holds neither a
\* bracket pair nor a marked line; a non-empty plan comes only from a text.
C15_OneCallNeverRaises ==
    Planned =>
        /\ ~call.ret.raised
        /\ call.ret.calls = <<GenCall("plan", "none", call.arg)>>
        /\ call.o1.kind \in {"raise", "none"} => call.ret.value = <<>>
        /\ (/\ call.o1.kind = "text"
            /\ ~HasBracketPair(call.o1.text)
            /\ SelectSeq(MarkedLines(Strip(call.o1.text, Whitespace)), NotEmpty) = <<>>)
           => call.ret.value = <<>>
        /\ call.ret.value # <<>> => call.o1.kind = "text"

C15_Witness ==
    /\ Planned /\ call.o1.kind = "none"
    /\ ~call.ret.raised /\ call.ret.value = <<>> /\ Len(call.ret.calls) = 1

(* ------------------------------------------------------------------ *)
(* Research notes                                                       *)
(* ------------------------------------------------------------------ *)

\* The notes the Synthesizer's prompt was built around.
Notes == call.ret.calls[1].about[2]

\* C16: the research notes hold one section per input pair, in input order and
\* nothing else: section k carries the number k (1..n, contiguous) and the k-th
\* pair's question in its header, then that pair's finding and the delimiter.
C16_OneSectionPerPairInOrder ==
    (Synthesized /\ call.results # <<>>) =>
        LET n == Len(call.results) IN
        /\ Len(call.ret.calls) = 1
        /\ Len(Notes) = n * 7
        /\ \A k \in 1..n :
              SubSeq(Notes, (k - 1) * 7 + 1, k * 7)
                  = <<"### Research Question ", k, ": ", call.results[k][1],
                      "**Research Findings:**", call.results[k][2], "---">>

C16_Witness ==
    /\ Synthesized /\ Len(call.results) = 2
    /\ call.results[1] # call.results[2]
    /\ Len(Notes) = 2 * 7
    /\ Notes[2] = 1 /\ Notes[7 + 2] = 2

(* ------------------------------------------------------------------ *)
(* Runs of an assistant that is not initialized                         *)
(* ------------------------------------------------------------------ *)

\* C18 as stated: while initialize() has not been called or has returned False,
\* every conduct_research call returns the 'System not initialized' string
\* without raising and without invoking an agent.
C18_UninitializedRunReturnsError ==
    (initResult # "True" /\ runs > 0) =>
        /\ pc = "idle" /\ outcome = "returned"
        /\ report = NotInitializedMsg
        /\ trace = <<>>

(* ------------------------------------------------------------------ *)
(* The interactive loop                                                 *)
(* ------------------------------------------------------------------ *)

FailureOutcomes == {NotInitializedMsg, NoPlanMsg, NoFindingsMsg, SynthFailMsg, NoDataMsg}

\* C19 as stated: once the interactive loop has dealt with a run that returned
\* a failure outcome, it has printed the message: it has neither handed it to
\* display_report nor offered to save it.
C19_FailureNeverDisplayedAsReport ==
    (Returned /\ report \in FailureOutcomes /\ shown # "nothing") =>
        shown = "message printed"

(* ------------------------------------------------------------------ *)
(* Pacing                                                               *)
(* ------------------------------------------------------------------ *)

\* C20: one pause of the variant's fixed length follows each research step that
\* returned, with or without finding: pause k comes right after research call k
\* and before anything else, a run that went through a plan of n questions
\* (ending with the no-findings message or reaching the Synthesizer) has paused
\* n times, and a pause leaves the accumulated pairs as they were.
C20_OnePauseAfterEachResearchStep ==
    /\ [](PlannerInvoked =>
            /\ Cardinality(Positions("sleep")) = Len(findings)
            /\ \A k \in 1..Len(findings) :
                  /\ trace[2 * k] = Event("researcher", k)
                  /\ trace[2 * k + 1] = Event("sleep", PauseSeconds(variant))
            /\ (Returned /\ research_plan # <<>>) =>
                  Cardinality(Positions("sleep")) = Len(research_plan)
            /\ (pc = "synthesizing" \/ synthArgs # <<>>) =>
                  Cardinality(Positions("sleep")) = Len(research_plan))
    /\ [][pc = "sleeping" =>
             /\ research_results' = research_results
             /\ findings' = findings
             /\ pc' # "sleeping"]_vars

C20_Witness ==
    /\ Returned /\ Len(research_plan) = 2 /\ synthRets # <<>>
    /\ findings[1] # <<>> /\ findings[2] = <<>>
    /\ Cardinality(Positions("sleep")) = 2
    /\ trace[5].op = "sleep" /\ trace[6].op = "synthesizer"

(* ------------------------------------------------------------------ *)
(* One run after another                                                *)
(* ------------------------------------------------------------------ *)

\* C21: whatever the runs before it left behind, a conduct_research call on an
\* initialized assistant starts with a Planner call and an empty accumulated
\* list; the pairs handed to the Synthesizer are as many as this run's non-empty
\* findings and each pairs a question of this run's plan with its finding; and
\* the model handle and the agent references change only in initialize(),
\* never during or at the start of a run.
C21_EachRunStartsAfresh ==
    /\ [](PlannerInvoked =>
            /\ trace[1] = Event("planner", 0) /\ Positions("planner") = {1}
            /\ pc = "planning" => research_results = <<>> /\ findings = <<>>
            /\ Len(research_results) <= Len(findings)
            /\ \A n \in 1..Len(synthArgs) :
                  /\ Len(synthArgs[n]) = Cardinality(Kept)
                  /\ \A m \in 1..Len(synthArgs[n]) :
                        \E j \in Kept :
                            synthArgs[n][m] = <<research_plan[j], findings[j]>>)
    /\ [][/\ runs' # runs =>
                /\ research_results' = <<>> /\ synthArgs' = <<>>
                /\ initResult = "True" =>
                      pc' = "planning" /\ trace' = <<Event("planner", 0)>>
          /\ (model' # model \/ agents' # agents \/ variant' # variant) =>
                pc = "idle" /\ runs' = runs /\ initResult = "uncalled"
         ]_vars

C21_Witness ==
    /\ runs = 2 /\ earlier.run /\ earlier.failed_with_pairs
    /\ Returned /\ report \in ReportTexts
    /\ Len(research_plan) = 1 /\ Len(synthArgs) = 1 /\ Len(synthArgs[1]) = 1
    /\ model = "handle" /\ agents = "set"

(* ------------------------------------------------------------------ *)
(* Precedence of the bracket path                                       *)
(* ------------------------------------------------------------------ *)

\* What stands between the first '[' and the first ']' after it.
FirstOpen(text) == CHOOSE a \in 1..Len(text) :
    text[a] = "[" /\ \A k \in 1..(a - 1) : text[k] # "["
FirstClose(text) == CHOOSE b \in (FirstOpen(text) + 1)..Len(text) :
    text[b] = "]" /\ \A k \in (FirstOpen(text) + 1)..(b - 1) : text[k] # "]"
Listed(text) == SubSeq(text, FirstOpen(text) + 1, FirstClose(text) - 1)

\* The comma-separated pieces of a text, in order.
Commas(c) == {k \in 1..Len(c) : c[k] = ","}
NthComma(c, n) == CHOOSE k \in Commas(c) : Cardinality({j \in Commas(c) : j <= k}) = n
Piece(c, n) ==
    SubSeq(c, IF n = 1 THEN 1 ELSE NthComma(c, n - 1) + 1,
              IF n = Cardinality(Commas(c)) + 1 THEN Len(c) ELSE NthComma(c, n) - 1)
Pieces(c) ==
    [n \in 1..(Cardinality(Commas(c)) + 1) |->
        Strip(Strip(Piece(c, n), Whitespace), QuoteChars)]
LongerThanTen(q) == Len(q) > 10

====
